---- MODULE Spec2Model ----
(***************************************************************************)
(* nntp2sql: the ingestion run of main.c.  The orchestrator (thread 0)     *)
(* selects the group, records it, and either drains XOVER itself or starts *)
(* head_worker threads that pop article numbers from a WorkQueue, fetch    *)
(* HEAD on their own session and write through db_insert_article under     *)
(* db_mutex.  The relational store is modelled as two row sequences with   *)
(* the UNIQUE constraints of db_init_schema.                               *)
(***************************************************************************)
EXTENDS Integers, Sequences, FiniteSets, TLC

\* ---------------------------------------------------------------- bounds
RangeSize == 2         \* article numbers 1..RangeSize exist on the server
MaxRetries == 1        \* largest --retries value explored
MaxLines == 2          \* most XOVER lines the server returns in one body

Workers == {1, 2}               \* the head_worker threads (--threads 1 or 2)
MainT == 0                      \* the orchestrator
Threads == {MainT} \cup Workers
Arts == 1..RangeSize
Vals == {"old", "new"}          \* a parsed header tuple, abstracted to a token
GroupName == "g"                \* the --group argument
NoVal == "none"

\* ------------------------------------------------------------ relational store
\* Table articles is kept per article number: articles[a] lists the header
\* values of the rows WHERE group_name = <the run's group> AND artnum = a, in
\* insertion order.  Rows of other groups match none of the statements below.

\* UPDATE articles SET <fields> WHERE group_name=? AND artnum=?
SqlUpdateArticle(tbl, artnum, val) ==
  [tbl EXCEPT ![artnum] = [i \in DOMAIN @ |-> val]]

\* The affected-row count the client library reports for that UPDATE:
\* sqlite3_changes counts the rows the WHERE clause matched, MySQL (connected
\* without CLIENT_FOUND_ROWS, main.c:1017) counts the rows whose values changed.
AffectedArticles(type, tbl, artnum, val) ==
  IF type = "sqlite" THEN Len(tbl[artnum])
  ELSE Cardinality({i \in DOMAIN tbl[artnum] : tbl[artnum][i] # val})

\* INSERT with no uniqueness constraint (the table without its index).
SqlInsertArticleNoIndex(tbl, artnum, val) ==
  [tbl EXCEPT ![artnum] = Append(@, val)]

\* INSERT INTO articles ...: idx_articles_group_artnum rejects a second row
\* for the same (group_name, artnum); the statement fails and the caller only
\* logs a warning.
SqlInsertArticle(tbl, artnum, val) ==
  IF tbl[artnum] # <<>> THEN tbl
  ELSE [tbl EXCEPT ![artnum] = Append(@, val)]

MatchedGroups(rows, name) == {i \in DOMAIN rows : rows[i].name = name}

GroupRow(name, c, f, l) == [name |-> name, count |-> c, first |-> f, last |-> l]

\* The group UPDATE with the first and last parameters bound the wrong way round.
SqlUpdateGroupSwapped(rows, name, count, first, lastN) ==
  [i \in DOMAIN rows |->
     IF rows[i].name = name THEN GroupRow(name, count, lastN, first) ELSE rows[i]]

\* UPDATE groups SET article_count=?, first=?, last=? WHERE name=?
SqlUpdateGroup(rows, name, count, first, lastN) ==
  [i \in DOMAIN rows |->
     IF rows[i].name = name THEN GroupRow(name, count, first, lastN) ELSE rows[i]]

AffectedGroups(type, rows, name, count, first, lastN) ==
  IF type = "sqlite" THEN Cardinality(MatchedGroups(rows, name))
  ELSE Cardinality({i \in MatchedGroups(rows, name) :
                      rows[i] # GroupRow(name, count, first, lastN)})

\* INSERT INTO groups ...: name is UNIQUE.
SqlInsertGroup(rows, name, count, first, lastN) ==
  IF MatchedGroups(rows, name) # {} THEN rows
  ELSE Append(rows, GroupRow(name, count, first, lastN))

\* ------------------------------------------------------------------- state
VARIABLES
  db,            \* DB handle: [type, stmts (the prepared statements), open]
  g_upsert,      \* --upsert
  opts,          \* [headers_only, threads, retries, limit]
  articles,      \* table articles
  groups,        \* rows of table groups
  pc,            \* control point of the orchestrator (0) and of each worker
  exitCode,      \* process exit status, -1 while running
  grp,           \* main's rc, count, first, last of the GROUP reply
  created,       \* threads started by the pthread_create loop
  tids,          \* the pthread_t array: what each slot holds
  joined,        \* threads joined by the pthread_join loop
  wq,            \* WorkQueue: [items, head, tail, capacity, m]
  db_mutex,      \* holder of db_mutex, or Free
  processed,     \* the progress counter
  wk,            \* head_worker locals: [sess, artnum, attempt, hdrs, h, ok]
  nlines,        \* XOVER lines consumed so far by the bulk loop
  call,          \* db_insert_article activation of each thread
  popLog,        \* history: values of the successful pops, in order
  heads,         \* history: HEAD commands each worker sent for its current number
  written,       \* history: db_insert_article invocations per article number
  skipped,       \* history: article numbers given up after the retries
  nfWarn,        \* history: "article not found for update" warnings logged
  last,          \* history: the last completed db_insert_article call
  store0,        \* history: table articles as the run found it
  groups0,       \* history: table groups as the run found it
  grpWrites,     \* history: db_insert_group calls made by the run
  conf,          \* bring-up of one session: [role, use_ssl, do_starttls, auth, headers_only]
  sess,          \* that session: [step, use_ssl, dead, log, rc, out, code] and its
                 \* Conn: sock, ctx, ssl; released: the calls that released them
  rx,            \* framing: characters sent by the server and not yet read
  srv,           \* framing: the reply the server is sending: [status, body, done]
  res,           \* framing: what the last nntp_head returned
  ncmd,          \* framing: HEAD commands sent on the session
  unit,          \* one call of a helper function: [fn, arg, ret, done]
  boot           \* history: how start-up went: [tables, index, dns]

\* The session bring-up and the reply framing are followed on their own
\* (SpecSession, SpecWire); the run as a whole sees only their outcome.
wireVars == <<rx, srv, res, ncmd>>
unitVars == <<unit, boot>>
netVars == <<conf, sess, wireVars, unitVars>>
cfgVars == <<db, g_upsert, opts, store0, groups0, netVars>>
storeVars == <<articles, groups>>
mainVars == <<exitCode, grp, created, tids, joined, nlines>>
poolVars == <<wq, db_mutex, processed, wk>>
histVars == <<popLog, heads, written, skipped, nfWarn, last, grpWrites>>
vars == <<db, g_upsert, opts, store0, groups0, netVars, articles, groups, pc, exitCode, grp, created,
          tids, joined, nlines, wq, db_mutex, processed, wk, call,
          popLog, heads, written, skipped, nfWarn, last, grpWrites>>

Free == -1                      \* an unlocked pthread_mutex_t
NoCall == [art |-> 0, val |-> NoVal, upd |-> 0, ins |-> FALSE, warn |-> FALSE]
NoLast == [art |-> 0, val |-> NoVal]
LineArts == 1..(RangeSize + 1)  \* article numbers an XOVER line may carry
NoLocals == [sess |-> "none", artnum |-> 0, attempt |-> 0, hdrs |-> NoVal,
             h |-> 0, ok |-> 0]

\* The statement sets db_init_schema can leave on the handle.  On SQLite each
\* sqlite3_prepare_v2 may fail on its own (a warning, the pointer stays NULL);
\* on MySQL a failed article-update prepare is fatal, only the article-insert
\* statement may be missing, and groups are written with plain SQL.
AllStmts == {"art_upd", "art_ins", "grp_upd", "grp_ins"}
HandlesWithout(missing) ==
  {[type |-> "sqlite", stmts |-> AllStmts \ s, open |-> TRUE] : s \in missing}
  \cup {[type |-> "mysql", stmts |-> {"art_upd", "art_ins"} \ s, open |-> TRUE] :
          s \in missing \cap {{}, {"art_ins"}}}
ArticleHandles == HandlesWithout({{}, {"art_upd"}, {"art_ins"}})
GroupHandles == HandlesWithout({{}, {"grp_upd"}, {"grp_ins"}})

\* Tables an earlier run (or an operator deleting rows) can have left behind:
\* empty, a row for every article number, or a row for all but the first.
EmptyTable == [a \in LineArts |-> <<>>]
InitialStores ==
  {EmptyTable}
  \cup {[a \in LineArts |-> IF a \in Arts \ miss THEN <<v>> ELSE <<>>] :
          v \in Vals, miss \in {{}, {1}}}

GroupStores == {<<>>, <<GroupRow(GroupName, 1, 1, 1)>>,
                <<GroupRow(GroupName, RangeSize, 1, RangeSize)>>}
\* What nntp_group returns: the status of the reply, -1 when none was read.
GroupCodes == {211, 411, -1}
\* 2xx replies to GROUP: an empty group and a group holding 1..RangeSize.
GroupReplies == {[rc |-> 211, count |-> 0, first |-> 0, last |-> 0],
                 [rc |-> 211, count |-> RangeSize, first |-> 1, last |-> RangeSize]}
\* main's locals rc, count, first, last before nntp_group is called.
NoGroup == [rc |-> 0, count |-> 0, first |-> 0, last |-> 0]

\* --threads and --retries are read in HEAD mode only.
Options ==
  {o \in [headers_only : BOOLEAN, threads : 1..Cardinality(Workers),
          retries : {0, MaxRetries}, limit : {0, 1}] :
     o.headers_only => (o.threads = 1 /\ o.retries = 0)}

NoConf == [role |-> "main", use_ssl |-> FALSE, do_starttls |-> FALSE, auth |-> FALSE,
           headers_only |-> FALSE]
NoSess == [step |-> "tcp", use_ssl |-> FALSE, dead |-> FALSE, log |-> <<>>, rc |-> 0,
           out |-> "running", code |-> 0,
           sock |-> -1, ctx |-> FALSE, ssl |-> FALSE, released |-> <<>>]

\* main at control point p with the GROUP reply g, before any worker exists.
InitRunAt(p, g) ==
  /\ g_upsert \in BOOLEAN
  /\ store0 = articles
  /\ groups0 = groups
  /\ pc = [t \in Threads |-> IF t = MainT THEN p ELSE "idle"]
  /\ exitCode = -1
  /\ grp = g
  /\ created = 0 /\ joined = 0 /\ nlines = 0
  /\ tids = [w \in Workers |-> "unset"]
  /\ wq = [items |-> <<>>, head |-> 0, tail |-> 0, capacity |-> 0, m |-> Free]
  /\ db_mutex = Free /\ processed = 0
  /\ wk = [w \in Workers |-> NoLocals]
  /\ call = [t \in Threads |-> NoCall]
  /\ popLog = <<>>
  /\ heads = [w \in Workers |-> 0]
  /\ written = [a \in LineArts |-> 0]
  /\ skipped = {}
  /\ nfWarn = 0
  /\ last = NoLast
  /\ grpWrites = 0

InitRunState == InitRunAt("connect", NoGroup)

NoReply == [status |-> "none", body |-> <<>>, done |-> TRUE]
NoResult == [ret |-> "none", code |-> 0, out |-> <<>>, stalled |-> FALSE]
NoUnit == [fn |-> "none", arg |-> <<>>, ret |-> <<>>, done |-> FALSE]
NoBoot == [tables |-> "ok", index |-> "ok", dns |-> "ok"]
InitIdle == unit = NoUnit /\ boot = NoBoot
InitWire == rx = <<>> /\ srv = NoReply /\ res = NoResult /\ ncmd = 0 /\ InitIdle

InitRun == InitRunState /\ conf = NoConf /\ sess = NoSess /\ InitWire

\* A run on a database whose table groups is still empty.
Init ==
  /\ db \in ArticleHandles
  /\ opts \in Options
  /\ articles \in InitialStores
  /\ groups = <<>>
  /\ InitRun

\* ------------------------------------------------------------ orchestrator
\* A run that ignores --limit.
FetchFirstNoLimit(first, lastN, lim) == first

\* main.c:1090-1096: the fetch range under --limit.
FetchFirst(first, lastN, lim) ==
  IF lim > 0 /\ lim < (lastN - first + 1)
  THEN (IF lastN - lim + 1 < first THEN first ELSE lastN - lim + 1)
  ELSE first

fetch_first == FetchFirst(grp.first, grp.last, opts.limit)
fetch_last == grp.last
total == fetch_last - fetch_first + 1

Exit(code) == /\ pc' = [pc EXCEPT ![MainT] = "exit"]
              /\ exitCode' = code

\* Bring-up of the main session up to AUTH (main.c:1042-1075), here only by its
\* outcome: every failure is fatal() with its exit code.
MainConnect ==
  /\ pc[MainT] = "connect"
  /\ \/ /\ pc' = [pc EXCEPT ![MainT] = "group"]
        /\ UNCHANGED exitCode
     \/ \E code \in {11, 12, 13, 15} : Exit(code)
  /\ UNCHANGED <<cfgVars, storeVars, grp, created, tids, joined, nlines, poolVars, call, histVars>>

\* A run that goes on without recording the group.
AfterGroupNoWrite == "check_count"

\* main.c:1081: db_insert_group directly follows the check of the GROUP reply.
AfterGroup == "insert_group"

\* A GROUP reply check that lets every reply through.
GroupNeverFails(rc) == FALSE

\* if (rc < 200 || rc >= 300) after nntp_group
GroupFailed(rc) == rc < 200 \/ rc >= 300

\* nntp_group on the main session: a non-2xx reply or no reply is fatal; count,
\* first and last are stored for a 2xx reply only.
MainGroup ==
  /\ pc[MainT] = "group"
  /\ \E code \in GroupCodes :
       IF GroupFailed(code)
       THEN /\ grp' = [grp EXCEPT !.rc = code]
            /\ Exit(14)
       ELSE /\ \E r \in GroupReplies : grp' = [r EXCEPT !.rc = code]
            /\ pc' = [pc EXCEPT ![MainT] = AfterGroup]
            /\ UNCHANGED exitCode
  /\ UNCHANGED <<cfgVars, storeVars, created, tids, joined, nlines, poolVars, call, histVars>>

\* db_insert_group(db, name, count, first, last), the whole call.
GroupUpsertInserts(type, stmts, ch) ==
  /\ ch = 0
  /\ g_upsert
  /\ (type = "sqlite" => "grp_ins" \in stmts)

db_insert_group(type, stmts, rows, name, count, first, lastN) ==
  IF type = "sqlite" /\ "grp_upd" \notin stmts THEN rows
  ELSE LET ch == AffectedGroups(type, rows, name, count, first, lastN)
           upd == SqlUpdateGroup(rows, name, count, first, lastN)
       IN  IF GroupUpsertInserts(type, stmts, ch)
           THEN SqlInsertGroup(upd, name, count, first, lastN)
           ELSE upd

MainInsertGroup ==
  /\ pc[MainT] = "insert_group"
  /\ groups' = db_insert_group(db.type, db.stmts, groups, GroupName,
                               grp.count, grp.first, grp.last)
  /\ grpWrites' = grpWrites + 1
  /\ pc' = [pc EXCEPT ![MainT] = "check_count"]
  /\ UNCHANGED <<cfgVars, articles, mainVars, poolVars, call,
                 popLog, heads, written, skipped, nfWarn, last>>

\* A run that fetches whatever the count.
GroupNeverEmpty(count) == FALSE

\* main.c:1083: if (count == 0)
GroupIsEmpty(count) == count = 0

\* main.c:1083-1102: an empty group ends the run; otherwise dispatch on the mode.
MainCheckCount ==
  /\ pc[MainT] = "check_count"
  /\ IF GroupIsEmpty(grp.count)
     THEN /\ db' = [db EXCEPT !.open = FALSE]
          /\ Exit(0)
     ELSE /\ pc' = [pc EXCEPT ![MainT] = IF opts.headers_only THEN "xover" ELSE "pool_setup"]
          /\ UNCHANGED <<db, exitCode>>
  /\ UNCHANGED <<g_upsert, opts, store0, groups0, netVars, storeVars, grp, created, tids, joined, nlines,
                 poolVars, call, histVars>>

\* nntp_xover: NULL (rejected, or the transport failed) or the body.
MainXover ==
  /\ pc[MainT] = "xover"
  /\ \/ pc' = [pc EXCEPT ![MainT] = "line"]
     \/ pc' = [pc EXCEPT ![MainT] = "db_close"]
  /\ UNCHANGED <<cfgVars, storeVars, mainVars, poolVars, call, histVars>>

\* One turn of the strtok_r loop: the next line of the body is parsed and handed
\* to db_insert_article, or the body has ended.
MainLine ==
  /\ pc[MainT] = "line"
  /\ \/ /\ nlines < MaxLines
        /\ \E a \in LineArts, v \in Vals :
             call' = [call EXCEPT ![MainT] = [NoCall EXCEPT !.art = a, !.val = v]]
        /\ nlines' = nlines + 1
        /\ pc' = [pc EXCEPT ![MainT] = "db_update"]
     \/ /\ pc' = [pc EXCEPT ![MainT] = "db_close"]
        /\ UNCHANGED <<call, nlines>>
  /\ UNCHANGED <<cfgVars, storeVars, exitCode, grp, created, tids, joined, poolVars, histVars>>

\* queue_push(q, v)
queue_push(q, v) ==
  IF q.tail < q.capacity
  THEN [q EXCEPT !.items = Append(q.items, v), !.tail = q.tail + 1]
  ELSE q

RECURSIVE PushRange(_, _, _)
PushRange(q, a, b) == IF a > b THEN q ELSE PushRange(queue_push(q, a), a + 1, b)

\* main.c:1133-1144: queue_init(total), one queue_push per article number of the
\* fetch range, threads clamped to total.
MainPoolSetup ==
  /\ pc[MainT] = "pool_setup"
  /\ wq' = PushRange([items |-> <<>>, head |-> 0, tail |-> 0, capacity |-> total,
                      m |-> Free], fetch_first, fetch_last)
  /\ opts' = [opts EXCEPT !.threads = IF @ > total THEN total ELSE @]
  /\ pc' = [pc EXCEPT ![MainT] = "create"]
  /\ UNCHANGED <<db, g_upsert, store0, groups0, netVars, storeVars, mainVars, db_mutex, processed, wk,
                 call, histVars>>

\* What a slot of tids holds when pthread_create failed: tids comes from
\* malloc and the failed call stores nothing, so the slot is uninitialized.
\* pthread_join on such a value either fails at once ("invalid") or waits on,
\* or faults at, whatever the value points to ("wild"); in both wild cases the
\* orchestrator takes no further step.
Garbage == {"invalid", "wild"}

\* pthread_create loop, one turn per step: the thread starts, or the call
\* fails and main only warns.
MainCreate ==
  /\ pc[MainT] = "create"
  /\ IF created < opts.threads
     THEN /\ created' = created + 1
          /\ \/ /\ pc' = [pc EXCEPT ![created + 1] = "connect"]
                /\ tids' = [tids EXCEPT ![created + 1] = "thread"]
             \/ /\ \E v \in Garbage : tids' = [tids EXCEPT ![created + 1] = v]
                /\ UNCHANGED pc
     ELSE /\ pc' = [pc EXCEPT ![MainT] = "join"]
          /\ UNCHANGED <<created, tids>>
  /\ UNCHANGED <<cfgVars, storeVars, exitCode, grp, joined, nlines, poolVars, call, histVars>>

\* A join that returns at once.
JoinReturnsAtOnce(w) == TRUE

\* pthread_join(tids[ti], NULL) returns once the thread has returned; on a
\* value that names no thread it returns an error, which main does not read.
ThreadReturned(w) ==
  \/ tids[w] = "thread" /\ pc[w] = "done"
  \/ tids[w] = "invalid"

\* pthread_join loop: blocks until thread joined+1 has returned.
MainJoin ==
  /\ pc[MainT] = "join"
  /\ IF joined < opts.threads
     THEN /\ ThreadReturned(joined + 1)
          /\ joined' = joined + 1
          /\ UNCHANGED pc
     ELSE /\ pc' = [pc EXCEPT ![MainT] = "db_close"]
          /\ UNCHANGED joined
  /\ UNCHANGED <<cfgVars, storeVars, exitCode, grp, created, tids, nlines, poolVars, call, histVars>>

\* db_close(&db); conn_cleanup(&c); log_close(); return 0
MainDbClose ==
  /\ pc[MainT] = "db_close"
  /\ db' = [db EXCEPT !.open = FALSE]
  /\ Exit(0)
  /\ UNCHANGED <<g_upsert, opts, store0, groups0, netVars, storeVars, grp, created, tids, joined, nlines,
                 poolVars, call, histVars>>

\* ------------------------------------------------------- db_insert_article
\* The prepared paths with the test on the affected-row count inverted.
ArticleAfterUpdateInverted(stmts, upsert, ch) ==
  IF "art_upd" \in stmts
  THEN IF ch # 0
       THEN (IF upsert /\ "art_ins" \in stmts THEN "insert" ELSE "warn")
       ELSE "return"
  ELSE IF upsert THEN "insert" ELSE "return"

\* What db_insert_article does once its UPDATE has run and reported ch affected
\* rows: on the prepared paths the INSERT runs only for ch = 0 with the upsert
\* flag and a prepared insert statement, otherwise ch = 0 logs "article not
\* found for update"; the string-formatted fallback never reads the count.
ArticleAfterUpdate(stmts, upsert, ch) ==
  IF "art_upd" \in stmts
  THEN IF ch = 0
       THEN (IF upsert /\ "art_ins" \in stmts THEN "insert" ELSE "warn")
       ELSE "return"
  ELSE IF upsert THEN "insert" ELSE "return"

\* A lock that never blocks.
MutexNeverBlocks(m) == TRUE

\* An unlock that leaves the mutex held.
MutexStaysLocked(m) == m

\* pthread_mutex_unlock
pthread_mutex_unlock(m) == Free

\* pthread_mutex_lock returns only when the mutex is unlocked.
MutexAvailable(m) == m = Free

\* Entry into db_insert_article and its UPDATE statement.  A worker enters
\* through pthread_mutex_lock(wa->db_mutex); the XOVER loop calls it directly.
DbUpdate(t) ==
  /\ pc[t] = "db_update"
  /\ t # MainT => MutexAvailable(db_mutex)
  /\ db_mutex' = IF t = MainT THEN db_mutex ELSE t
  /\ LET c == call[t]
         ch == AffectedArticles(db.type, articles, c.art, c.val)
         nxt == ArticleAfterUpdate(db.stmts, g_upsert, ch)
     IN  /\ articles' = SqlUpdateArticle(articles, c.art, c.val)
         /\ call' = [call EXCEPT ![t] = [c EXCEPT !.upd = ch, !.ins = (nxt = "insert"),
                                                  !.warn = (nxt = "warn")]]
         /\ nfWarn' = IF nxt = "warn" THEN nfWarn + 1 ELSE nfWarn
         /\ pc' = [pc EXCEPT ![t] = IF nxt = "insert" THEN "db_insert" ELSE "db_ret"]
  /\ written' = [written EXCEPT ![call[t].art] = @ + 1]
  /\ UNCHANGED <<cfgVars, groups, mainVars, wq, processed, wk, popLog, heads, skipped, last, grpWrites>>

\* The INSERT statement of the call thread t is in.
DbInsert(t) ==
  /\ pc[t] = "db_insert"
  /\ articles' = SqlInsertArticle(articles, call[t].art, call[t].val)
  /\ pc' = [pc EXCEPT ![t] = "db_ret"]
  /\ UNCHANGED <<cfgVars, groups, mainVars, poolVars, call, histVars>>

\* db_insert_article returns: to the XOVER loop on the orchestrator, to
\* pthread_mutex_unlock(wa->db_mutex) on a worker.
DbRet(t) ==
  /\ pc[t] = "db_ret"
  /\ last' = [art |-> call[t].art, val |-> call[t].val]
  /\ call' = [call EXCEPT ![t] = NoCall]
  /\ IF t = MainT
     THEN /\ pc' = [pc EXCEPT ![t] = "line"]
          /\ UNCHANGED db_mutex
     ELSE /\ pc' = [pc EXCEPT ![t] = "progress"]
          /\ db_mutex' = pthread_mutex_unlock(db_mutex)
  /\ UNCHANGED <<cfgVars, storeVars, mainVars, wq, processed, wk,
                 popLog, heads, written, skipped, nfWarn, grpWrites>>

\* ------------------------------------------------------------- head_worker
\* thread_connect: 1 with the group selected on a fresh session, or 0, and
\* then head_worker returns at once.
WorkerConnect(w) ==
  /\ pc[w] = "connect"
  /\ \/ /\ wk' = [wk EXCEPT ![w].sess = "up"]
        /\ pc' = [pc EXCEPT ![w] = "pop"]
     \/ /\ wk' = [wk EXCEPT ![w].sess = "failed"]
        /\ pc' = [pc EXCEPT ![w] = "done"]
  /\ UNCHANGED <<cfgVars, storeVars, mainVars, wq, db_mutex, processed, call, histVars>>

\* queue_pop, first half: pthread_mutex_lock(&q->m), the test head < tail and
\* the read of items[head] into *v.
PopRead(w) ==
  /\ pc[w] = "pop"
  /\ MutexAvailable(wq.m)
  /\ IF wq.head < wq.tail
     THEN /\ wk' = [wk EXCEPT ![w].h = wq.head, ![w].artnum = wq.items[wq.head + 1],
                              ![w].ok = 1]
          /\ popLog' = Append(popLog, wq.items[wq.head + 1])
     ELSE /\ wk' = [wk EXCEPT ![w].ok = 0]
          /\ UNCHANGED popLog
  /\ heads' = [heads EXCEPT ![w] = 0]
  /\ wq' = [wq EXCEPT !.m = w]
  /\ pc' = [pc EXCEPT ![w] = "pop_unlock"]
  /\ UNCHANGED <<cfgVars, storeVars, mainVars, db_mutex, processed,
                 call, written, skipped, nfWarn, last, grpWrites>>

\* queue_pop, second half: the store of head + 1 (when a value was taken),
\* pthread_mutex_unlock(&q->m), return ok; then the while test on ok.
PopUnlock(w) ==
  /\ pc[w] = "pop_unlock"
  /\ wq' = [wq EXCEPT !.m = pthread_mutex_unlock(@),
                      !.head = IF wk[w].ok = 1 THEN wk[w].h + 1 ELSE @]
  /\ IF wk[w].ok = 1
     THEN /\ wk' = [wk EXCEPT ![w].attempt = 0, ![w].hdrs = NoVal, ![w].h = 0]
          /\ pc' = [pc EXCEPT ![w] = "head"]
     ELSE /\ pc' = [pc EXCEPT ![w] = "cleanup"]
          /\ wk' = [wk EXCEPT ![w].h = 0]
  /\ UNCHANGED <<cfgVars, storeVars, mainVars, db_mutex, processed, call, histVars>>

\* The retry loop running one turn too many.
RetryLoopOneMore(attempt, retries) == attempt <= retries + 1

\* while (attempt <= wa->retries)
RetryLoopContinues(attempt, retries) == attempt <= retries

\* Locals of a loop turn that has ended; the next turn overwrites them.
EndTurn(l) == [l EXCEPT !.artnum = 0, !.attempt = 0, !.hdrs = NoVal, !.ok = 0]

\* One nntp_head(&tc, artnum) of the retry loop.  The reply is a header block,
\* a non-2xx status, or nothing because the transport failed; once the
\* transport has failed every later read on the session fails too.  A header
\* block is parsed and the worker goes for db_mutex; after the last failed
\* attempt it goes back to queue_pop.
WorkerHead(w) ==
  /\ pc[w] = "head"
  /\ heads' = [heads EXCEPT ![w] = @ + 1]
  /\ \E o \in (IF wk[w].sess = "dead" THEN {"netfail"}
               ELSE {"served", "rejected", "netfail"}) :
       IF o = "served"
       THEN /\ wk' = [wk EXCEPT ![w].hdrs = "new"]
            /\ call' = [call EXCEPT ![w] = [NoCall EXCEPT !.art = wk[w].artnum,
                                                          !.val = "new"]]
            /\ pc' = [pc EXCEPT ![w] = "db_update"]
            /\ UNCHANGED skipped
       ELSE LET att == wk[w].attempt + 1
                l == [wk[w] EXCEPT !.attempt = att,
                                   !.sess = IF o = "netfail" THEN "dead" ELSE @]
            IN  /\ UNCHANGED call
                /\ IF RetryLoopContinues(att, opts.retries)
                   THEN /\ wk' = [wk EXCEPT ![w] = l]
                        /\ UNCHANGED <<pc, skipped>>
                   ELSE /\ wk' = [wk EXCEPT ![w] = EndTurn(l)]
                        /\ pc' = [pc EXCEPT ![w] = "pop"]
                        /\ skipped' = skipped \cup {wk[w].artnum}
  /\ UNCHANGED <<cfgVars, storeVars, mainVars, wq, db_mutex, processed,
                 popLog, written, nfWarn, last, grpWrites>>

\* pthread_mutex_lock(wa->progress_mutex); (*wa->processed)++; the progress
\* bar; pthread_mutex_unlock.  The section touches nothing but the counter.
Progress(w) ==
  /\ pc[w] = "progress"
  /\ processed' = processed + 1
  /\ wk' = [wk EXCEPT ![w] = EndTurn(@)]
  /\ pc' = [pc EXCEPT ![w] = "pop"]
  /\ UNCHANGED <<cfgVars, storeVars, mainVars, wq, db_mutex, call, histVars>>

\* conn_cleanup(&tc); return NULL
WorkerCleanup(w) ==
  /\ pc[w] = "cleanup"
  /\ wk' = [wk EXCEPT ![w].sess = "closed"]
  /\ pc' = [pc EXCEPT ![w] = "done"]
  /\ UNCHANGED <<cfgVars, storeVars, mainVars, wq, db_mutex, processed, call, histVars>>

Next ==
  \/ MainConnect \/ MainGroup \/ MainInsertGroup \/ MainCheckCount
  \/ MainXover \/ MainLine \/ MainPoolSetup \/ MainCreate \/ MainJoin \/ MainDbClose
  \/ \E t \in Threads : DbUpdate(t) \/ DbInsert(t) \/ DbRet(t)
  \/ \E w \in Workers :
       \/ WorkerConnect(w) \/ PopRead(w) \/ PopUnlock(w) \/ WorkerHead(w)
       \/ Progress(w) \/ WorkerCleanup(w)

Spec == Init /\ [][Next]_vars

\* A HEAD-mode run under a fair scheduler: the orchestrator and every started
\* thread keep being scheduled while they can take a step.
InitPool ==
  /\ db = [type |-> "sqlite", stmts |-> AllStmts, open |-> TRUE]
  /\ opts \in {o \in Options : ~o.headers_only /\ o.limit = 0}
  /\ articles = EmptyTable
  /\ groups = <<>>
  /\ InitRun

MainPoolNext ==
  \/ MainConnect \/ MainGroup \/ MainInsertGroup \/ MainCheckCount
  \/ MainPoolSetup \/ MainCreate \/ MainJoin \/ MainDbClose

WorkerNext(w) ==
  \/ WorkerConnect(w) \/ PopRead(w) \/ PopUnlock(w) \/ WorkerHead(w)
  \/ DbUpdate(w) \/ DbInsert(w) \/ DbRet(w)
  \/ Progress(w) \/ WorkerCleanup(w)

NextPool == MainPoolNext \/ \E w \in Workers : WorkerNext(w)

SpecPool ==
  /\ InitPool /\ [][NextPool]_vars
  /\ WF_vars(MainPoolNext)
  /\ \A w \in Workers : WF_vars(WorkerNext(w))

\* ---------------------------------------------------------- session bring-up
\* One NNTP session from tcp_connect to its first fetch command, as main
\* (main.c:1041-1103) and as thread_connect/head_worker (main.c:783-819) run
\* it.  Every command is one step: conn_sendf, conn_readline of the status
\* line and atoi; code -1 stands for a conn_readline that failed.
orchVars == <<db, g_upsert, opts, store0, groups0, storeVars, pc, mainVars, poolVars,
              call, histVars>>
runVars == <<orchVars, unitVars>>

MaxFetch == 2                   \* fetch commands followed after the bring-up

GreetingCodes == {200, 400, -1}
StartTlsCodes == {200, 382, 580, -1}
UserCodes == {381, 281, 481, -1}
PassCodes == {281, 381, 481, -1}
FetchCodes == {221, 430, -1}

\* Once a read has failed, every later read on the session fails.
Replies(codes) == IF sess.dead THEN {-1} ELSE codes

Event(ev, code) == [ev |-> ev, code |-> code]

\* fatal(code, ...) on the main session, return 0 from thread_connect.
Abort(c, se, code) ==
  IF c.role = "main" THEN [se EXCEPT !.step = "stopped", !.out = "fatal", !.code = code]
  ELSE [se EXCEPT !.step = "stopped", !.out = "return0"]

Sent(se, ev, code) ==
  [se EXCEPT !.log = Append(@, Event(ev, code)), !.dead = (@ \/ code = -1)]

\* if (atoi(line) >= 400), after a failed read
GreetingFailed(code) == code = -1 \/ code >= 400
\* A bring-up that never asks for STARTTLS.
StartTlsSkipped(c) == FALSE

\* main tests do_starttls, thread_connect tests do_starttls && !use_ssl
StartTlsWanted(c) ==
  IF c.role = "main" THEN c.do_starttls ELSE c.do_starttls /\ ~c.use_ssl

\* A STARTTLS reply check that lets every reply through.
StartTlsNeverFails(rc) == FALSE

\* if (rc < 200 || rc >= 300) after nntp_starttls
StartTlsFailed(rc) == rc < 200 \/ rc >= 300

\* AUTHINFO PASS sent after anything but 281.
PassAfterAnyRefusal(code) == code # 281

\* if (code == 381) in nntp_auth
PassWanted(code) == code = 381

\* if (rc >= 400) after nntp_auth
AuthFailed(rc) == rc >= 400

AfterTls(c) == IF c.auth THEN "auth_user" ELSE "group"
AfterGreeting(c) == IF StartTlsWanted(c) THEN "starttls" ELSE AfterTls(c)

\* conn_cleanup(c): the Conn it leaves and the library and system calls it makes.
conn_cleanup(c) ==
  [conn |-> [c EXCEPT !.ssl = FALSE, !.ctx = FALSE],
   calls |-> (IF c.ssl THEN <<"SSL_shutdown", "SSL_free">> ELSE <<>>)
             \o (IF c.ctx THEN <<"SSL_CTX_free">> ELSE <<>>)
             \o (IF c.sock >= 0 THEN <<"close">> ELSE <<>>)]

\* SSL_CTX_new and SSL_new on a Conn.
WithTls(se) == [se EXCEPT !.ctx = TRUE, !.ssl = TRUE]

\* Each step of the bring-up, for the session se of a run configured as c,
\* given what the network or the server answered.

\* conn_init and tcp_connect: a descriptor, or -1.
OnTcp(c, se, ok) ==
  IF ok THEN [se EXCEPT !.step = IF c.use_ssl THEN "tls_connect" ELSE "greeting",
                        !.sock = 3]
  ELSE Abort(c, se, 11)

\* SSL_CTX_new, SSL_new, SSL_set_fd and SSL_connect on the fresh socket
\* (direct TLS).
OnTlsConnect(c, se, ok) ==
  IF ok THEN [WithTls(Sent(se, "TLS-connect", 1)) EXCEPT !.use_ssl = TRUE,
                                                        !.step = "greeting"]
  ELSE Abort(c, WithTls(Sent(se, "TLS-connect", 0)), 12)

OnGreeting(c, se, code) ==
  IF GreetingFailed(code) THEN Abort(c, Sent(se, "greeting", code), 13)
  ELSE [Sent(se, "greeting", code) EXCEPT !.step = AfterGreeting(c)]

\* nntp_starttls and the check of its return value.
OnStartTls(c, se, code) ==
  IF StartTlsFailed(code) THEN Abort(c, Sent(se, "STARTTLS", code), 12)
  ELSE [Sent(se, "STARTTLS", code) EXCEPT !.step = "handshake"]

\* conn_starttls: returns 1 at once on a session that already runs TLS,
\* otherwise SSL_connect on the socket in use.
OnHandshake(c, se, ok) ==
  IF se.use_ssl THEN [se EXCEPT !.step = AfterTls(c)]
  ELSE IF ok THEN [WithTls(Sent(se, "TLS-inplace", 1)) EXCEPT !.use_ssl = TRUE,
                                                             !.step = AfterTls(c)]
  ELSE Abort(c, WithTls(Sent(se, "TLS-inplace", 0)), 12)

\* nntp_auth up to the test of the AUTHINFO USER reply.
OnAuthUser(c, se, code) ==
  IF code # -1 /\ PassWanted(code)
  THEN [Sent(se, "AUTHINFO USER", code) EXCEPT !.step = "auth_pass"]
  ELSE [Sent(se, "AUTHINFO USER", code) EXCEPT !.step = "auth_check", !.rc = code]

\* nntp_auth, the AUTHINFO PASS exchange and its return value.
OnAuthPass(c, se, code) ==
  [Sent(se, "AUTHINFO PASS", code) EXCEPT !.step = "auth_check", !.rc = code]

\* if (rc >= 400) after nntp_auth
OnAuthCheck(c, se) ==
  IF AuthFailed(se.rc) THEN Abort(c, se, 15) ELSE [se EXCEPT !.step = "group"]

\* nntp_group and the check of its return value.
OnGroup(c, se, code) ==
  IF GroupFailed(code) THEN Abort(c, Sent(se, "GROUP", code), 14)
  ELSE [Sent(se, "GROUP", code) EXCEPT !.step = "selected", !.out = "up"]

SessTcp ==
  /\ sess.step = "tcp"
  /\ \E ok \in BOOLEAN : sess' = OnTcp(conf, sess, ok)
  /\ UNCHANGED <<conf, wireVars, runVars>>

SessTlsConnect ==
  /\ sess.step = "tls_connect"
  /\ \E ok \in BOOLEAN : sess' = OnTlsConnect(conf, sess, ok)
  /\ UNCHANGED <<conf, wireVars, runVars>>

SessGreeting ==
  /\ sess.step = "greeting"
  /\ \E code \in Replies(GreetingCodes) : sess' = OnGreeting(conf, sess, code)
  /\ UNCHANGED <<conf, wireVars, runVars>>

SessStartTls ==
  /\ sess.step = "starttls"
  /\ \E code \in Replies(StartTlsCodes) : sess' = OnStartTls(conf, sess, code)
  /\ UNCHANGED <<conf, wireVars, runVars>>

SessHandshake ==
  /\ sess.step = "handshake"
  /\ \E ok \in BOOLEAN : sess' = OnHandshake(conf, sess, ok)
  /\ UNCHANGED <<conf, wireVars, runVars>>

SessAuthUser ==
  /\ sess.step = "auth_user"
  /\ \E code \in Replies(UserCodes) : sess' = OnAuthUser(conf, sess, code)
  /\ UNCHANGED <<conf, wireVars, runVars>>

SessAuthPass ==
  /\ sess.step = "auth_pass"
  /\ \E code \in Replies(PassCodes) : sess' = OnAuthPass(conf, sess, code)
  /\ UNCHANGED <<conf, wireVars, runVars>>

SessAuthCheck ==
  /\ sess.step = "auth_check"
  /\ sess' = OnAuthCheck(conf, sess)
  /\ UNCHANGED <<conf, wireVars, runVars>>

SessGroup ==
  /\ sess.step = "group"
  /\ \E code \in Replies(GroupCodes) : sess' = OnGroup(conf, sess, code)
  /\ UNCHANGED <<conf, wireVars, runVars>>

\* The fetch commands of a selected session: nntp_xover on main in bulk mode,
\* nntp_head for the popped numbers on a worker.
SessFetch ==
  /\ sess.step = "selected"
  /\ conf.role = "main" => conf.headers_only
  /\ Cardinality({i \in DOMAIN sess.log : sess.log[i].ev \in {"XOVER", "HEAD"}})
       < (IF conf.role = "main" THEN 1 ELSE MaxFetch)
  /\ \E code \in Replies(FetchCodes) :
       sess' = Sent(sess, IF conf.role = "main" THEN "XOVER" ELSE "HEAD", code)
  /\ UNCHANGED <<conf, wireVars, runVars>>

\* head_worker after the last queue_pop: conn_cleanup(&tc); return NULL.
SessWorkerReturn ==
  /\ sess.step = "selected"
  /\ conf.role = "worker"
  /\ LET r == conn_cleanup(sess)
     IN  sess' = [r.conn EXCEPT !.step = "returned", !.out = "exit",
                                !.released = r.calls]
  /\ UNCHANGED <<conf, wireVars, runVars>>

Confs ==
  {c \in [role : {"main", "worker"}, use_ssl : BOOLEAN, do_starttls : BOOLEAN,
          auth : BOOLEAN, headers_only : BOOLEAN] :
     c.role = "worker" => ~c.headers_only}

InitSession ==
  /\ db = [type |-> "sqlite", stmts |-> AllStmts, open |-> TRUE]
  /\ opts = [headers_only |-> FALSE, threads |-> 1, retries |-> 0, limit |-> 0]
  /\ articles = EmptyTable
  /\ groups = <<>>
  /\ InitRunState
  /\ g_upsert = FALSE
  /\ conf \in Confs
  /\ sess = NoSess
  /\ InitWire

NextSession ==
  \/ SessTcp \/ SessTlsConnect \/ SessGreeting \/ SessStartTls \/ SessHandshake
  \/ SessAuthUser \/ SessAuthPass \/ SessAuthCheck \/ SessGroup \/ SessFetch
  \/ SessWorkerReturn

SpecSession == InitSession /\ [][NextSession]_vars

\* ------------------------------------------------------------ reply framing
\* The inbound side of one session, character by character: the server
\* answers each HEAD with a status line and, for 2xx, a dot-stuffed body and
\* the "." terminator; nntp_head reads it with conn_readline and
\* conn_read_multiline.  Characters are "x", ".", "CR", "LF", the status
\* digits "2" and "4", and "NUL" for the byte 0 in a buffer.
BUFSZ == 5                      \* nntp.h has 8192; scaled down so that lines
                                \* reaching the buffer size can be enumerated

SeqsUpTo(S, n) == UNION {[1..k -> S] : k \in 0..n}
\* Content lines of an article header block or an overview, before the
\* server's dot-stuffing: short ones, and ones as long as the line buffer.
ContentLines == SeqsUpTo({"x", "."}, BUFSZ)
CRLF == <<"CR", "LF">>
\* What a server puts on the wire for a content line.
Stuff(c) == IF c # <<>> /\ c[1] = "." THEN <<".">> \o c ELSE c

\* conn_readline: one character per recv until CR LF or bufsz - 1 characters;
\* r = -1 when the data ends first.
RECURSIVE ReadChars(_, _)
ReadChars(buf, rest) ==
  IF ~(Len(buf) + 1 < BUFSZ) THEN [r |-> Len(buf), line |-> buf, rest |-> rest]
  ELSE IF rest = <<>> THEN [r |-> -1, line |-> buf, rest |-> rest]
  ELSE LET b == Append(buf, Head(rest))
       IN  IF Len(b) >= 2 /\ b[Len(b) - 1] = "CR" /\ b[Len(b)] = "LF"
           THEN [r |-> Len(b), line |-> b, rest |-> Tail(rest)]
           ELSE ReadChars(b, Tail(rest))

conn_readline(rest) == ReadChars(<<>>, rest)

\* while (l && (line[l-1] == '\r' || line[l-1] == '\n')) line[--l] = '\0'
RECURSIVE StripCRLF(_)
StripCRLF(line) ==
  IF line # <<>> /\ line[Len(line)] \in {"CR", "LF"}
  THEN StripCRLF(SubSeq(line, 1, Len(line) - 1))
  ELSE line

\* The bytes memcpy(out + len, line, l) copies: l was taken before the
\* memmove that drops a leading '.', so for such a line the l bytes are the
\* l - 1 remaining characters and the terminating NUL.
CopiedBytes(line) ==
  IF line # <<>> /\ line[1] = "." THEN Append(Tail(line), "NUL") ELSE line

\* conn_read_multiline: the loop over conn_readline up to the line ".".
RECURSIVE ReadLines(_, _)
ReadLines(out, rest) ==
  LET rl == conn_readline(rest)
  IN  IF rl.r <= 0
      THEN [ret |-> "NULL", out |-> <<>>, rest |-> rl.rest, stalled |-> TRUE]
      ELSE LET line == StripCRLF(rl.line)
           IN  IF line = <<".">>
               THEN [ret |-> "text", out |-> out, rest |-> rl.rest, stalled |-> FALSE]
               ELSE ReadLines(out \o CopiedBytes(line) \o <<"LF">>, rl.rest)

conn_read_multiline(rest) == ReadLines(<<>>, rest)

\* atoi of a status line: the lines of this model start with "2" (221),
\* with "4" (430) or with no digit at all.
atoi(line) ==
  IF line # <<>> /\ line[1] = "2" THEN 221
  ELSE IF line # <<>> /\ line[1] = "4" THEN 430 ELSE 0

\* nntp_head (nntp_xover reads its reply the same way).
nntp_head(rest) ==
  LET rl == conn_readline(rest)
  IN  IF rl.r <= 0
      THEN [ret |-> "NULL", code |-> -1, out |-> <<>>, stalled |-> TRUE, rest |-> rl.rest]
      ELSE LET code == atoi(rl.line)
           IN  IF code < 200 \/ code >= 300
               THEN [ret |-> "NULL", code |-> code, out |-> <<>>, stalled |-> FALSE,
                     rest |-> rl.rest]
               ELSE LET m == conn_read_multiline(rl.rest)
                    IN  [ret |-> m.ret, code |-> code, out |-> m.out,
                         stalled |-> m.stalled, rest |-> m.rest]

\* The text a caller sees in the returned char *: the bytes before the first NUL.
CString(buf) ==
  LET nul == {i \in DOMAIN buf : buf[i] = "NUL"}
  IN  IF nul = {} THEN buf
      ELSE SubSeq(buf, 1, (CHOOSE i \in nul : \A j \in nul : i <= j) - 1)

\* The newline-separated entries of a text.
RECURSIVE Entries(_)
Entries(t) ==
  LET lf == {i \in DOMAIN t : t[i] = "LF"}
  IN  IF t = <<>> THEN <<>>
      ELSE IF lf = {} THEN <<t>>
      ELSE LET k == CHOOSE i \in lf : \A j \in lf : i <= j
           IN  <<SubSeq(t, 1, k - 1)>> \o Entries(SubSeq(t, k + 1, Len(t)))

\* The lines main's strtok_r(xdata, "\n", ...) loop visits: strtok_r skips
\* empty tokens.
NonEmpty(t) == t # <<>>
Tokens(t) == SelectSeq(Entries(t), NonEmpty)

\* The worker sends HEAD; the server starts its reply with the status line.
WireCommand ==
  /\ srv.done /\ res.ret # "pending" /\ ~res.stalled
  /\ ncmd < MaxFetch
  /\ \E st \in {"2", "4"} :
       /\ srv' = [status |-> st, body |-> <<>>, done |-> (st = "4")]
       /\ rx' = rx \o <<st>> \o CRLF
  /\ res' = [NoResult EXCEPT !.ret = "pending"]
  /\ ncmd' = ncmd + 1
  /\ UNCHANGED <<conf, sess, runVars>>

\* The server sends one more line of the body.
ServerLine ==
  /\ ~srv.done /\ Len(srv.body) < MaxLines
  /\ \E c \in ContentLines :
       /\ srv' = [srv EXCEPT !.body = Append(@, c)]
       /\ rx' = rx \o Stuff(c) \o CRLF
  /\ UNCHANGED <<conf, sess, res, ncmd, runVars>>

\* The server ends the body.
ServerEnd ==
  /\ ~srv.done
  /\ srv' = [srv EXCEPT !.done = TRUE]
  /\ rx' = rx \o <<".">> \o CRLF
  /\ UNCHANGED <<conf, sess, res, ncmd, runVars>>

\* nntp_head reads the reply.
WireHead ==
  /\ srv.done /\ res.ret = "pending"
  /\ LET r == nntp_head(rx)
     IN  /\ res' = [ret |-> r.ret, code |-> r.code, out |-> r.out, stalled |-> r.stalled]
         /\ rx' = r.rest
  /\ UNCHANGED <<conf, sess, srv, ncmd, runVars>>

InitWireSpec ==
  /\ db = [type |-> "sqlite", stmts |-> AllStmts, open |-> TRUE]
  /\ opts = [headers_only |-> FALSE, threads |-> 1, retries |-> 0, limit |-> 0]
  /\ articles = EmptyTable
  /\ groups = <<>>
  /\ InitRunState
  /\ g_upsert = FALSE
  /\ conf = NoConf /\ sess = NoSess
  /\ InitWire

NextWire == WireCommand \/ ServerLine \/ ServerEnd \/ WireHead

SpecWire == InitWireSpec /\ [][NextWire]_vars

\* The start of a run up to the dispatch, on every table groups and every set
\* of group statements.
InitGroup ==
  /\ db \in GroupHandles
  /\ opts = [headers_only |-> FALSE, threads |-> 1, retries |-> 0, limit |-> 0]
  /\ articles = EmptyTable
  /\ groups \in GroupStores
  /\ InitRun

NextGroup == MainConnect \/ MainGroup \/ MainInsertGroup \/ MainCheckCount

SpecGroup == InitGroup /\ [][NextGroup]_vars

\* The start of a run from db_init_schema on.  boot records what failed.
\* db_init_schema: on SQLite db_exec only warns when a CREATE statement
\* fails and each prepare may fail with a warning; on MySQL a failed CREATE
\* TABLE is fatal, a failed ALTER TABLE ... ADD UNIQUE KEY is logged, a failed
\* article-update prepare is fatal and the article-insert statement may be
\* missing.
SchemaOutcomes == [tables : {"ok", "fail"}, index : {"ok", "fail"}]
SchemaFatal(type, o) == type = "mysql" /\ o.tables = "fail"

StmtsAfter(type, o) ==
  IF type = "mysql" THEN {{"art_upd", "art_ins"}, {"art_upd"}}
  ELSE IF o.tables = "fail" THEN {AllStmts, {}}
  ELSE {AllStmts, AllStmts \ {"art_ins"}, AllStmts \ {"grp_ins"}}

MainInitSchema ==
  /\ pc[MainT] = "schema"
  /\ \E o \in SchemaOutcomes :
       /\ boot' = [boot EXCEPT !.tables = o.tables, !.index = o.index]
       /\ IF SchemaFatal(db.type, o)
          THEN Exit(21) /\ UNCHANGED db
          ELSE \/ /\ \E st \in StmtsAfter(db.type, o) : db' = [db EXCEPT !.stmts = st]
                  /\ pc' = [pc EXCEPT ![MainT] = "resolve"]
                  /\ UNCHANGED exitCode
               \/ /\ db.type = "mysql"
                  /\ Exit(22) /\ UNCHANGED db
  /\ UNCHANGED <<g_upsert, opts, store0, groups0, conf, sess, wireVars, unit, storeVars,
                 grp, created, tids, joined, nlines, poolVars, call, histVars>>

\* tcp_connect up to getaddrinfo: a resolution failure makes tcp_connect
\* return -1, which main turns into fatal(ERR_NET_CONNECT).  The connection
\* attempts on the candidates are part of MainConnect.
ResolveFailureExit == 11
MainResolve ==
  /\ pc[MainT] = "resolve"
  /\ \/ /\ boot' = [boot EXCEPT !.dns = "fail"]
        /\ Exit(ResolveFailureExit)
     \/ /\ pc' = [pc EXCEPT ![MainT] = "connect"]
        /\ UNCHANGED <<boot, exitCode>>
  /\ UNCHANGED <<db, g_upsert, opts, store0, groups0, conf, sess, wireVars, unit, storeVars,
                 grp, created, tids, joined, nlines, poolVars, call, histVars>>

InitStart ==
  /\ db \in {[type |-> t, stmts |-> {}, open |-> TRUE] : t \in {"sqlite", "mysql"}}
  /\ opts = [headers_only |-> FALSE, threads |-> 1, retries |-> 0, limit |-> 0]
  /\ articles = EmptyTable
  /\ groups \in GroupStores
  /\ InitRunAt("schema", NoGroup)
  /\ conf = NoConf /\ sess = NoSess /\ InitWire

NextStart ==
  \/ MainInitSchema \/ MainResolve
  \/ MainConnect \/ MainGroup \/ MainInsertGroup \/ MainCheckCount

SpecStart == InitStart /\ [][NextStart]_vars

\* The dispatch of a run on any group range and any --limit: from the GROUP
\* reply to the XOVER command or to the filled work queue.
MaxLast == 4
GroupRanges ==
  {[rc |-> 211, count |-> p[2] - p[1] + 1, first |-> p[1], last |-> p[2]] :
     p \in {q \in (1..MaxLast) \X (1..MaxLast) : q[1] <= q[2]}}

InitRange ==
  /\ db = [type |-> "sqlite", stmts |-> AllStmts, open |-> TRUE]
  /\ opts \in {o \in [headers_only : BOOLEAN, threads : 1..Cardinality(Workers),
                       retries : {0}, limit : 0..(MaxLast + 1)] :
                 o.headers_only => o.threads = 1}
  /\ articles = EmptyTable
  /\ groups = <<>>
  /\ \E g \in GroupRanges : InitRunAt("check_count", g)
  /\ conf = NoConf /\ sess = NoSess /\ InitWire

NextRange == MainCheckCount \/ MainXover \/ MainPoolSetup

SpecRange == InitRange /\ [][NextRange]_vars

\* ------------------------------------------------------------- helper calls
\* The transport and parsing helpers, each called once on an input of its own.
WireChars == {"x", "CR", "LF"}
\* What the socket can deliver to a conn_readline call: up to a full line
\* buffer and two characters more.
ReadlineInputs == SeqsUpTo(WireChars, BUFSZ + 1)

Pending(fn) == unit.fn = fn /\ ~unit.done
Returned(fn) == unit.fn = fn /\ unit.done
Return(v) == unit' = [unit EXCEPT !.ret = v, !.done = TRUE]

\* conn_readline(c, buf, sizeof(buf)) on the characters unit.arg.
CallReadline ==
  /\ Pending("conn_readline")
  /\ Return(conn_readline(unit.arg))
  /\ UNCHANGED <<conf, sess, wireVars, boot, orchVars>>

\* The formatted command: vsnprintf keeps at most sizeof(buf) - 1 characters.
Formatted(cmd) == SubSeq(cmd, 1, IF Len(cmd) < BUFSZ - 1 THEN Len(cmd) ELSE BUFSZ - 1)
EndsCRLF(b) == Len(b) >= 2 /\ b[Len(b) - 1] = "CR" /\ b[Len(b)] = "LF"

\* What the transport does with a buffer of len bytes when it can take n of
\* them (n = -1: error): send returns the count it took, SSL_write writes all
\* or fails.
Accepted(use_ssl, len, n) ==
  IF n >= len THEN len
  ELSE IF use_ssl \/ n <= 0 THEN -1 ELSE n

\* conn_sendf: r is the return value, sent the bytes put on the transport.
conn_sendf(use_ssl, cmd, n) ==
  LET b == Formatted(cmd)
  IN  IF ~EndsCRLF(b) /\ Len(b) + 2 >= BUFSZ
      THEN [r |-> -1, sent |-> <<>>, buf |-> b]
      ELSE LET buf == IF EndsCRLF(b) THEN b ELSE b \o CRLF
               r == Accepted(use_ssl, Len(buf), n)
           IN  [r |-> r, sent |-> SubSeq(buf, 1, IF r < 0 THEN 0 ELSE r), buf |-> buf]

CmdChars == {"H", "CR", "LF"}
SendfInputs ==
  [use_ssl : BOOLEAN, cmd : SeqsUpTo(CmdChars, BUFSZ), n : {-1} \cup (1..BUFSZ)]

CallSendf ==
  /\ Pending("conn_sendf")
  /\ Return(conn_sendf(unit.arg.use_ssl, unit.arg.cmd, unit.arg.n))
  /\ UNCHANGED <<conf, sess, wireVars, boot, orchVars>>

\* The test a command function makes on conn_sendf's return value before it
\* reads the reply: none, conn_readline is called whatever was returned.
ReadsReply(r) == TRUE

\* The opening of nntp_group, nntp_auth, nntp_starttls, nntp_xover and
\* nntp_head: conn_sendf(c, <command>), then conn_readline for the status
\* line.  The server answers, with the line reply, a command it received
\* whole; line is what conn_readline returns, stalled says that it waits for
\* a line that is not coming.
nntp_command(use_ssl, cmd, n, reply) ==
  LET s == conn_sendf(use_ssl, cmd, n)
      arrived == IF s.sent = s.buf /\ EndsCRLF(s.buf) THEN reply ELSE <<>>
  IN  [send |-> s,
       waited |-> ReadsReply(s.r),
       stalled |-> ReadsReply(s.r) /\ arrived = <<>>,
       line |-> IF ReadsReply(s.r) THEN conn_readline(arrived).line ELSE <<>>]

CallCommand ==
  /\ Pending("nntp_command")
  /\ Return(nntp_command(unit.arg.use_ssl, unit.arg.cmd, unit.arg.n, <<"2">> \o CRLF))
  /\ UNCHANGED <<conf, sess, wireVars, boot, orchVars>>

\* strtok_r(s, d, &saveptr) called to exhaustion: the maximal runs of
\* characters other than d; empty runs are skipped.
RECURSIVE StrTok(_, _)
StrTok(t, d) ==
  LET at == {i \in DOMAIN t : t[i] = d}
  IN  IF t = <<>> THEN <<>>
      ELSE IF at = {} THEN <<t>>
      ELSE LET k == CHOOSE i \in at : \A j \in at : i <= j
               rest == StrTok(SubSeq(t, k + 1, Len(t)), d)
           IN  IF k = 1 THEN rest ELSE <<SubSeq(t, 1, k - 1)>> \o rest

\* The numbers an overview field carries here, as printed and as atoi reads
\* them back.
Decimal(n) == IF n = 7 THEN <<"7">> ELSE <<"0">>
AtoiField(tok) == IF tok = <<"7">> THEN 7 ELSE 0

\* parse_xover_line: fields[f] is token f + 1, NULL past the last token.
parse_xover_line(line) ==
  LET toks == StrTok(line, "TAB")
      n == IF Len(toks) < 9 THEN Len(toks) ELSE 9
      Str(i) == IF i <= n THEN toks[i] ELSE <<>>
      Num(i) == IF i <= n THEN AtoiField(toks[i]) ELSE 0
  IN  [artnum |-> Num(1), subject |-> Str(2), author |-> Str(3), date |-> Str(4),
       message_id |-> Str(5), references |-> Str(6), bytes |-> Num(7), lines |-> Num(8)]

\* An overview line as the server builds it: the eight fields joined by tabs.
TabJoin(f) ==
  Decimal(f.artnum) \o <<"TAB">> \o f.subject \o <<"TAB">> \o f.author \o <<"TAB">>
    \o f.date \o <<"TAB">> \o f.message_id \o <<"TAB">> \o f.references \o <<"TAB">>
    \o Decimal(f.bytes) \o <<"TAB">> \o Decimal(f.lines)

FieldTexts == {<<>>, <<"a">>}
FieldNumbers == {0, 7}
OverviewFields ==
  [artnum : FieldNumbers, subject : FieldTexts, author : FieldTexts, date : FieldTexts,
   message_id : FieldTexts, references : FieldTexts, bytes : FieldNumbers,
   lines : FieldNumbers]

CallParseXover ==
  /\ Pending("parse_xover_line")
  /\ Return(parse_xover_line(TabJoin(unit.arg)))
  /\ UNCHANGED <<conf, sess, wireVars, boot, orchVars>>

\* Header text is followed word by word: a field name with its colon, a
\* space, or a word of the value are one element each.
TextFields == {"Subject:", "From:", "Date:", "Message-ID:", "References:"}
NumberFields == {"Lines:", "Bytes:"}
NoHeaders == [h \in TextFields \cup NumberFields |-> IF h \in TextFields THEN <<>> ELSE 0]

RECURSIVE SkipSpaces(_)
SkipSpaces(l) == IF l # <<>> /\ l[1] = "SP" THEN SkipSpaces(Tail(l)) ELSE l

\* One turn of the strtok loop of extract_from_headers on the line l.
HeaderLine(got, l) ==
  LET line == SkipSpaces(l)
  IN  IF line = <<>> THEN got
      ELSE IF line[1] \in TextFields
      THEN [got EXCEPT ![line[1]] = SkipSpaces(Tail(line))]
      ELSE IF line[1] \in NumberFields
      THEN [got EXCEPT ![line[1]] = AtoiField(SkipSpaces(Tail(line)))]
      ELSE got

RECURSIVE HeaderLines(_, _)
HeaderLines(got, ls) ==
  IF ls = <<>> THEN got ELSE HeaderLines(HeaderLine(got, Head(ls)), Tail(ls))

extract_from_headers(hdrs) == HeaderLines(NoHeaders, StrTok(hdrs, "LF"))

\* The text conn_read_multiline returns for the lines ls.
RECURSIVE LinesText(_)
LinesText(ls) == IF ls = <<>> THEN <<>> ELSE Head(ls) \o <<"LF">> \o LinesText(Tail(ls))

MaxHeaderLines == 3
SomeHeaderLines ==
  {<<"Subject:", "SP", "a">>, <<"From:", "SP", "a">>, <<"Lines:", "SP", "7">>,
   <<"SP", "b">>, <<"SP", "SP", "From:", "SP", "b">>}
HeaderBlocks == SeqsUpTo(SomeHeaderLines, MaxHeaderLines) \ {<<>>}

CallExtract ==
  /\ Pending("extract_from_headers")
  /\ Return(extract_from_headers(LinesText(unit.arg)))
  /\ UNCHANGED <<conf, sess, wireVars, boot, orchVars>>

\* A Conn: the descriptor (-1 when none), and whether ctx and ssl are set.
Conns ==
  {c \in [sock : {-1, 3}, ctx : BOOLEAN, ssl : BOOLEAN, use_ssl : BOOLEAN] :
     /\ c.ssl => c.ctx
     /\ c.use_ssl => c.ssl
     /\ c.ctx => c.sock >= 0}

\* conn_cleanup called on a Conn, then called again on what it left.
CallCleanup ==
  /\ unit.fn = "conn_cleanup" /\ Len(unit.ret) < 2
  /\ LET c == IF unit.ret = <<>> THEN unit.arg ELSE unit.ret[1].conn
     IN  unit' = [unit EXCEPT !.ret = Append(@, conn_cleanup(c)),
                              !.done = (Len(unit.ret) = 1)]
  /\ UNCHANGED <<conf, sess, wireVars, boot, orchVars>>

\* nntp_xover: the statements of nntp_head but for the command sent.
nntp_xover(rest) == nntp_head(rest)

\* What a server puts on the wire for an overview: the 2xx status line, the
\* dot-stuffed lines and the "." terminator.
RECURSIVE Wire(_)
Wire(body) ==
  IF body = <<>> THEN <<>> ELSE Stuff(Head(body)) \o CRLF \o Wire(Tail(body))

FullReply(body) == <<"2">> \o CRLF \o Wire(body) \o <<".">> \o CRLF

\* Overviews of one line, and of a short line followed by another line.
OverviewBodies ==
  SeqsUpTo(ContentLines, 1) \cup {<<<<"x">>, c>> : c \in ContentLines}

\* The characters that arrived when the transport failed before the end of
\* the terminator.
CutReplies ==
  UNION {{SubSeq(FullReply(b), 1, n) : n \in 0..(Len(FullReply(b)) - 1)} :
           b \in OverviewBodies}

\* main.c:1103-1113: nntp_xover on what arrived, and the lines the strtok_r
\* loop hands to parse_xover_line and db_insert_article.
CallXover ==
  /\ Pending("nntp_xover")
  /\ LET r == nntp_xover(unit.arg)
     IN  Return([ret |-> r.ret,
                 lines |-> IF r.ret = "NULL" THEN <<>> ELSE Tokens(CString(r.out))])
  /\ UNCHANGED <<conf, sess, wireVars, boot, orchVars>>

Calls ==
  {[fn |-> "nntp_command", arg |-> a, ret |-> <<>>, done |-> FALSE] : a \in SendfInputs}
  \cup {[fn |-> "nntp_xover", arg |-> a, ret |-> <<>>, done |-> FALSE] : a \in CutReplies}
  \cup {[fn |-> "conn_cleanup", arg |-> a, ret |-> <<>>, done |-> FALSE] : a \in Conns}
  \cup {[fn |-> "extract_from_headers", arg |-> a, ret |-> <<>>, done |-> FALSE] : a \in HeaderBlocks}
  \cup {[fn |-> "parse_xover_line", arg |-> a, ret |-> <<>>, done |-> FALSE] : a \in OverviewFields}
  \cup {[fn |-> "conn_readline", arg |-> a, ret |-> <<>>, done |-> FALSE] : a \in ReadlineInputs}
  \cup {[fn |-> "conn_sendf", arg |-> a, ret |-> <<>>, done |-> FALSE] : a \in SendfInputs}

InitCalls ==
  /\ db = [type |-> "sqlite", stmts |-> AllStmts, open |-> TRUE]
  /\ opts = [headers_only |-> FALSE, threads |-> 1, retries |-> 0, limit |-> 0]
  /\ articles = EmptyTable
  /\ groups = <<>>
  /\ InitRunState
  /\ g_upsert = FALSE
  /\ conf = NoConf /\ sess = NoSess
  /\ rx = <<>> /\ srv = NoReply /\ res = NoResult /\ ncmd = 0
  /\ unit \in Calls
  /\ boot = NoBoot

NextCalls ==
  \/ CallReadline \/ CallSendf \/ CallParseXover \/ CallExtract \/ CallCleanup
  \/ CallXover \/ CallCommand

SpecCalls == InitCalls /\ [][NextCalls]_vars

\* -------------------------------------------------- bring-up, main and worker
\* main's bring-up on sess and then one thread_connect call, both with the
\* same flags and credentials and against the same server: unit.arg says what
\* the network and the server answer to each step, unit.ret is the worker's
\* session.
Servers ==
  [tcp : BOOLEAN, tls : BOOLEAN, greeting : GreetingCodes, starttls : StartTlsCodes,
   user : UserCodes, pass : PassCodes, group : GroupCodes]

\* A read on a session whose transport has failed fails again.
Reply(se, code) == IF se.dead THEN -1 ELSE code

BringUpStep(c, se, p) ==
  CASE se.step = "tcp" -> OnTcp(c, se, p.tcp)
    [] se.step = "tls_connect" -> OnTlsConnect(c, se, p.tls)
    [] se.step = "greeting" -> OnGreeting(c, se, Reply(se, p.greeting))
    [] se.step = "starttls" -> OnStartTls(c, se, Reply(se, p.starttls))
    [] se.step = "handshake" -> OnHandshake(c, se, p.tls)
    [] se.step = "auth_user" -> OnAuthUser(c, se, Reply(se, p.user))
    [] se.step = "auth_pass" -> OnAuthPass(c, se, Reply(se, p.pass))
    [] se.step = "auth_check" -> OnAuthCheck(c, se)
    [] se.step = "group" -> OnGroup(c, se, Reply(se, p.group))
    [] OTHER -> se

BringUpOver(se) == se.step \in {"selected", "stopped"}

\* The WorkerArgs main fills in from its own flags (main.c:1144).
WorkerConf == [conf EXCEPT !.role = "worker"]

\* One step of main's bring-up.
TwinMain ==
  /\ unit.fn = "thread_connect"
  /\ ~BringUpOver(sess)
  /\ sess' = BringUpStep(conf, sess, unit.arg)
  /\ UNCHANGED <<conf, wireVars, runVars>>

\* One step of thread_connect.
TwinWorker ==
  /\ unit.fn = "thread_connect"
  /\ BringUpOver(sess) /\ ~unit.done
  /\ LET se == BringUpStep(WorkerConf, unit.ret, unit.arg)
     IN  unit' = [unit EXCEPT !.ret = se, !.done = BringUpOver(se)]
  /\ UNCHANGED <<conf, sess, wireVars, boot, orchVars>>

InitTwin ==
  /\ db = [type |-> "sqlite", stmts |-> AllStmts, open |-> TRUE]
  /\ opts = [headers_only |-> FALSE, threads |-> 1, retries |-> 0, limit |-> 0]
  /\ articles = EmptyTable
  /\ groups = <<>>
  /\ InitRunState
  /\ g_upsert = FALSE
  /\ conf \in {c \in Confs : c.role = "main" /\ ~c.headers_only}
  /\ sess = NoSess
  /\ rx = <<>> /\ srv = NoReply /\ res = NoResult /\ ncmd = 0
  /\ unit \in {[fn |-> "thread_connect", arg |-> p, ret |-> NoSess, done |-> FALSE] :
                 p \in Servers}
  /\ boot = NoBoot

NextTwin == TwinMain \/ TwinWorker

SpecTwin == InitTwin /\ [][NextTwin]_vars

\* ================================================================== claims
InCall(t) == pc[t] \in {"db_insert", "db_ret"}
Running(w) == pc[w] \notin {"idle", "done"}

C2_PersistenceSerialized ==
  /\ Cardinality({w \in Workers : InCall(w)}) <= 1
  /\ \A w \in Workers : InCall(w) => db_mutex = w
  /\ (\E w \in Workers : Running(w)) =>
        /\ pc[MainT] \in {"create", "join"}
        /\ ~InCall(MainT)
        /\ db.open

\* One worker is between the two statements of its call while the other waits
\* at pthread_mutex_lock with its headers parsed.
C2_Witness ==
  \E w1, w2 \in Workers : /\ w1 # w2
                          /\ pc[w1] = "db_insert"
                          /\ pc[w2] = "db_update"
                          /\ pc[MainT] = "join"

PopsIncreasing ==
  /\ \A i, j \in DOMAIN popLog : i < j => popLog[i] < popLog[j]
  /\ \A i \in DOMAIN popLog : \E k \in DOMAIN wq.items : wq.items[k] = popLog[i]

QueueContents == <<wq.items, wq.head, wq.tail, wq.capacity>>

EmptyPopStep ==
  \A w \in Workers :
    /\ (pc[w] = "pop" /\ pc'[w] = "pop_unlock" /\ wq.head >= wq.tail) =>
          /\ wk'[w].ok = 0
          /\ QueueContents' = QueueContents
          /\ popLog' = popLog
    /\ (pc[w] = "pop_unlock" /\ wk[w].ok = 0 /\ pc'[w] # "pop_unlock") =>
          /\ QueueContents' = QueueContents
          /\ pc'[w] = "cleanup"

\* C3: under every interleaving of workers in queue_pop the successful pops
\* return enqueued article numbers in strictly increasing order, so none is
\* returned twice; a pop on an empty queue reports failure and leaves the
\* queue as it was.
C3_PopAtMostOnce == [](PopsIncreasing) /\ [][EmptyPopStep]_vars

\* Every number has been popped, one worker is still fetching its number and
\* another has just found the queue empty.
C3_Witness ==
  \E w1, w2 \in Workers : /\ w1 # w2
                          /\ Len(popLog) = RangeSize
                          /\ pc[w1] = "pop_unlock" /\ wk[w1].ok = 0
                          /\ pc[w2] = "head"

\* C4: a completed db_insert_article call has executed its INSERT exactly
\* when its UPDATE affected zero rows and the upsert flag is on, on every
\* write path.
C4_InsertIffNoRowAndUpsert ==
  \A t \in Threads :
    pc[t] = "db_ret" => (call[t].ins <=> (call[t].upd = 0 /\ g_upsert))

SecondCall(t) ==
  /\ pc[t] \in {"db_update", "db_insert"}
  /\ g_upsert
  /\ last.art = call[t].art
  /\ last.val = call[t].val

ReingestOneMissing ==
  /\ pc[MainT] = "exit" /\ exitCode = 0
  /\ grp.count > 0 /\ opts.limit = 0
  /\ store0[1] = <<>>
  /\ \A a \in LineArts : a # 1 => (store0[a] # <<>> <=> a \in Arts)
  /\ \A a \in LineArts : written[a] = (IF a \in Arts THEN 1 ELSE 0)

\* C6: re-ingesting a range of which exactly one row is missing, with the
\* upsert flag off the missing row stays missing, every other row stays and
\* exactly one "article not found for update" warning is logged; with the
\* flag on the missing row is there again.
C6_MissingRowReingest ==
  ReingestOneMissing =>
    IF g_upsert
    THEN \A a \in Arts : Len(articles[a]) = 1
    ELSE /\ articles[1] = <<>>
         /\ \A a \in Arts \ {1} : Len(articles[a]) = 1
         /\ nfWarn = 1

GroupRecorded ==
  groups = <<GroupRow(GroupName, grp.count, grp.first, grp.last)>>

GroupUpdateRuns == db.type = "mysql" \/ "grp_upd" \in db.stmts
GroupInsertRuns ==
  GroupUpdateRuns /\ g_upsert /\ (db.type = "mysql" \/ "grp_ins" \in db.stmts)

HeadRunServed ==
  /\ pc[MainT] = "exit" /\ exitCode = 0
  /\ ~opts.headers_only /\ grp.count > 0
  /\ store0 = EmptyTable
  /\ \A w \in 1..opts.threads : wk[w].sess = "closed"
  /\ skipped = {}

RowPerFetchedArticle ==
  \A a \in LineArts :
    Len(articles[a]) = (IF a \in fetch_first..fetch_last THEN 1 ELSE 0)

SkipInv ==
  /\ \A w \in Workers : heads[w] <= opts.retries + 1
  /\ \A a \in skipped : written[a] = 0 /\ articles[a] = store0[a]
  /\ (pc[MainT] = "exit" /\ skipped # {}) => exitCode = 0

SkipStep ==
  \A w \in Workers :
    /\ heads'[w] = heads[w] + 1 => \A u \in Workers \ {w} : wk'[u] = wk[u]
    /\ (pc[w] = "head" /\ pc'[w] = "pop") =>
          /\ heads'[w] = opts.retries + 1
          /\ wk[w].artnum \in skipped'
          /\ written' = written /\ articles' = articles /\ call' = call

\* C9: for an article whose HEAD keeps failing a worker sends at most
\* retries + 1 HEAD commands, all on its own session, then makes no
\* persistence call for it and goes back to queue_pop; the run still exits 0.
C9_BoundedRetriesThenSkip == [](SkipInv) /\ [][SkipStep]_vars

\* A run with --retries at its largest gave up one article, wrote another
\* and exited 0.
C9_Witness ==
  /\ pc[MainT] = "exit" /\ exitCode = 0
  /\ opts.retries = MaxRetries
  /\ skipped # {}
  /\ \E a \in Arts : written[a] = 1

\* C10: a worker whose session has failed at the transport level takes no
\* further article number from the queue.
C10_DeadWorkerTakesNoNumber ==
  \A w \in Workers : ~(wk[w].sess = "dead" /\ pc[w] = "pop_unlock" /\ wk[w].ok = 1)

Drained ==
  /\ Len(popLog) = total
  /\ \A a \in fetch_first..fetch_last : written[a] = 1 \/ a \in skipped

\* C11: once one worker has completed bring-up, whatever happens to the
\* bring-up of the others, the run reaches a state in which every enqueued
\* article number has been popped and has been persisted or skipped.
C11_QueueDrained == (\E w \in Workers : wk[w].sess = "up") ~> Drained

\* One worker failed bring-up, the other came up, drained the queue alone
\* and closed its session.
C11_Witness ==
  /\ opts.threads = 2
  /\ \E w1, w2 \in Workers : wk[w1].sess = "failed" /\ wk[w2].sess = "closed"
  /\ wq.tail = RangeSize
  /\ Drained
  /\ pc[MainT] = "exit"

\* C12: the handle is closed only when every worker thread that was started
\* has returned (or none was started), and from the moment main reaches db_close no thread is
\* in, or about to enter, db_insert_article.
C12_CloseAfterWorkers ==
  (pc[MainT] = "db_close" \/ ~db.open) =>
     /\ \A w \in Workers : pc[w] \in {"idle", "done"}
     /\ \A w \in Workers : tids[w] = "thread" => pc[w] = "done"
     /\ \A t \in Threads : call[t] = NoCall
     /\ db_mutex = Free

\* A pool run whose workers wrote rows has joined them and is at db_close.
C12_Witness ==
  /\ pc[MainT] = "db_close"
  /\ created = 2 /\ joined = 2
  /\ processed > 0
  /\ db.open

PoolStarted ==
  \/ pc[MainT] \in {"pool_setup", "create", "join"}
  \/ \E w \in Workers : pc[w] # "idle"

GroupWrittenOnce ==
  /\ grpWrites <= 1
  /\ PoolStarted => (grpWrites = 1 /\ pc[MainT] # "insert_group")
  /\ (~opts.headers_only /\ grp.count > 0 /\ pc[MainT] = "exit") => grpWrites = 1

GroupWriteStep ==
  grpWrites' # grpWrites =>
     /\ \A w \in Workers : pc[w] = "idle" /\ pc'[w] = "idle"
     /\ created = 0

\* C13: a HEAD-mode run calls db_insert_group exactly once, and the call has
\* returned before the pool is set up and the first worker thread is created.
C13_GroupWrittenOnceBeforeWorkers == [](GroupWrittenOnce) /\ [][GroupWriteStep]_vars

\* Both workers are running and the group row of this run is in the table.
C13_Witness ==
  /\ \A w \in Workers : pc[w] \in {"pop", "head"}
  /\ grpWrites = 1
  /\ g_upsert
  /\ GroupRecorded

Is2xx(code) == code >= 200 /\ code < 300
Failed(code) ==
  /\ sess.step = "stopped"
  /\ IF conf.role = "main" THEN sess.out = "fatal" /\ sess.code = code
     ELSE sess.out = "return0"

\* C14: on the orchestrator's session and on a worker's, every XOVER or HEAD
\* command in the session's log comes after a GROUP command of that session
\* that was answered 2xx.
C14_GroupBeforeFetch ==
  \A i \in DOMAIN sess.log :
    sess.log[i].ev \in {"XOVER", "HEAD"} =>
      \E j \in 1..(i - 1) : sess.log[j].ev = "GROUP" /\ Is2xx(sess.log[j].code)

\* A worker session that went through STARTTLS and AUTHINFO has sent HEAD.
C14_Witness ==
  /\ conf.role = "worker" /\ conf.do_starttls /\ conf.auth
  /\ Len(sess.log) = 7
  /\ sess.log[5] = Event("GROUP", 211)
  /\ sess.log[7].ev = "HEAD"

ScenarioCode(ev) ==
  CASE ev = "greeting" -> 200
    [] ev = "STARTTLS" -> 382
    [] ev = "TLS-inplace" -> 1
    [] ev = "AUTHINFO USER" -> 381
    [] ev = "AUTHINFO PASS" -> 281
    [] ev = "GROUP" -> 211
    [] OTHER -> 0

ScenarioOrder ==
  <<"greeting", "STARTTLS", "TLS-inplace", "AUTHINFO USER", "AUTHINFO PASS", "GROUP">>

\* C15: on the main session with STARTTLS and credentials configured, while
\* the server answers the greeting with 200, STARTTLS with 382, the handshake
\* succeeds, AUTHINFO USER gets 381, AUTHINFO PASS 281 and GROUP 211, the
\* session goes through greeting, STARTTLS, TLS handshake, AUTHINFO USER,
\* AUTHINFO PASS, GROUP in that order and is not aborted.
C15_StartTlsAuthGroupOrder ==
  (/\ conf.role = "main" /\ conf.do_starttls /\ ~conf.use_ssl /\ conf.auth
   /\ sess.log # <<>>
   /\ \A i \in DOMAIN sess.log : sess.log[i].code = ScenarioCode(sess.log[i].ev)) =>
     /\ Len(sess.log) <= Len(ScenarioOrder)
     /\ \A i \in DOMAIN sess.log : sess.log[i].ev = ScenarioOrder[i]
     /\ sess.out # "fatal"
     /\ sess.step = "selected" => Len(sess.log) = Len(ScenarioOrder)

\* C16: the in-place handshake directly follows a STARTTLS command answered
\* 2xx; a STARTTLS command answered otherwise is the last thing the session
\* does, and bring-up has failed: exit code 12 on main, return 0 in a worker.
C16_HandshakeOnlyAfter2xx ==
  \A i \in DOMAIN sess.log :
    /\ sess.log[i].ev = "TLS-inplace" =>
         i > 1 /\ sess.log[i - 1].ev = "STARTTLS" /\ Is2xx(sess.log[i - 1].code)
    /\ (sess.log[i].ev = "STARTTLS" /\ ~Is2xx(sess.log[i].code)) =>
         i = Len(sess.log) /\ sess.use_ssl = conf.use_ssl /\ Failed(12)

\* The server answered STARTTLS with 382 and the main session stopped there.
C16_Witness ==
  /\ conf.role = "main" /\ ~conf.use_ssl
  /\ sess.log = <<Event("greeting", 200), Event("STARTTLS", 382)>>
  /\ sess.out = "fatal" /\ sess.code = 12

PastAuth == sess.step \in {"group", "selected", "stopped"}

\* C17: AUTHINFO PASS is in the log exactly after an AUTHINFO USER answered
\* 381; nntp_auth returns the status of its last reply (PASS after 381, USER
\* otherwise); a returned status of 400 or more ends bring-up with code 15 on
\* main (return 0 in a worker) and nothing more is sent.
C17_AuthInfo ==
  /\ \A i \in DOMAIN sess.log :
       /\ sess.log[i].ev = "AUTHINFO PASS" =>
            i > 1 /\ sess.log[i - 1] = Event("AUTHINFO USER", 381)
       /\ (sess.log[i] = Event("AUTHINFO USER", 381) /\ sess.step # "auth_pass") =>
            i < Len(sess.log) /\ sess.log[i + 1].ev = "AUTHINFO PASS"
       /\ (sess.log[i].ev \in {"AUTHINFO USER", "AUTHINFO PASS"}
             /\ sess.log[i].code >= 400 /\ PastAuth) =>
            i = Len(sess.log) /\ Failed(15)
  /\ sess.step = "auth_check" =>
       /\ sess.log[Len(sess.log)].ev \in {"AUTHINFO USER", "AUTHINFO PASS"}
       /\ sess.rc = sess.log[Len(sess.log)].code

\* The server took the user name and refused the password: exit code 15.
C17_Witness ==
  /\ conf.role = "main"
  /\ Len(sess.log) = 3
  /\ sess.log[2] = Event("AUTHINFO USER", 381)
  /\ sess.log[3] = Event("AUTHINFO PASS", 481)
  /\ sess.out = "fatal" /\ sess.code = 15

Answered == srv.done /\ res.ret \notin {"none", "pending"}

\* C18: once nntp_head has returned, it has read a body exactly when the
\* status line was 2xx, and it has read the whole reply and nothing beyond
\* it, so that the next line read on the session is the status line of the
\* next command.
C18_BodyReadIffSuccess ==
  Answered =>
    /\ res.ret = "text" <=> srv.status = "2"
    /\ res.code = (IF srv.status = "2" THEN 221 ELSE 430)
    /\ rx = <<>>
    /\ ~res.stalled

\* A content line whose wire form, CR LF included, one conn_readline call
\* reads whole.
Fits(c) == Len(Stuff(c)) + 2 <= BUFSZ - 1
FirstReply == Answered /\ ncmd = 1 /\ srv.status = "2"
                /\ \A i \in DOMAIN srv.body : Fits(srv.body[i])

\* C19: for a body of non-empty lines that fit the line buffer, the text a
\* caller reads from the returned char * holds one entry per content line
\* that preceded the terminator, in wire order.
C19_EveryLineReturned ==
  (FirstReply /\ \A i \in DOMAIN srv.body : NonEmpty(srv.body[i])) =>
    /\ res.ret = "text"
    /\ Tokens(CString(res.out)) = srv.body

\* What the wire line w is to be returned as.
Unstuffed(w) == IF w # <<>> /\ w[1] = "." THEN Tail(w) ELSE w

\* C20: for a body whose lines fit the line buffer, every wire line that
\* began with '.' is returned less exactly that one character, every other
\* line is returned unchanged, and the body ended at the line that is
\* exactly ".": nothing of the reply is left unread.
C20_DotUnstuffed ==
  FirstReply =>
    /\ res.ret = "text" /\ rx = <<>>
    /\ \A i \in DOMAIN srv.body :
         /\ i \in DOMAIN Entries(CString(res.out))
         /\ Entries(CString(res.out))[i] = Unstuffed(Stuff(srv.body[i]))

\* The first i characters of a hold a complete line: they end in CR LF.
LineEndsAt(a, i) == i >= 2 /\ i <= Len(a) /\ a[i - 1] = "CR" /\ a[i] = "LF"
\* The line at the head of a does not fit a buffer of BUFSZ bytes: BUFSZ - 1
\* characters arrive with no CR LF among them.
Overflows(a) == Len(a) >= BUFSZ - 1 /\ \A i \in 1..(BUFSZ - 1) : ~LineEndsAt(a, i)

\* C21: conn_readline returns a failure (a value <= 0, the only failure its
\* callers test for) when the line exceeds the line buffer, so that the
\* caller can tell it from a complete line.
C21_OverflowReported ==
  (Returned("conn_readline") /\ Overflows(unit.arg)) => unit.ret.r <= 0

\* C22: a command that fits the buffer goes out whole, ending in exactly one
\* CR LF (added when the command did not end in one), unless conn_sendf
\* returns a failure; and conn_sendf returns a failure (a value <= 0)
\* whenever the transport took fewer bytes than the buffer held.
C22_SendWholeOrFail ==
  (Returned("conn_sendf") /\ Len(unit.arg.cmd) + 2 < BUFSZ) =>
    LET whole == IF EndsCRLF(unit.arg.cmd) THEN unit.arg.cmd ELSE unit.arg.cmd \o CRLF
    IN  /\ unit.ret.buf = whole
        /\ unit.ret.r > 0 => unit.ret.sent = whole

Max(a, b) == IF a > b THEN a ELSE b
\* The lowest article number the run is to fetch.
Lowest == IF opts.limit > 0 THEN Max(grp.first, grp.last - opts.limit + 1) ELSE grp.first
Interval(a, b) == [i \in 1..(b - a + 1) |-> a + i - 1]

\* C23: the range handed to XOVER, and the numbers put on the work queue in
\* HEAD mode, are max(first, last - L + 1) .. last under a limit L > 0 and
\* first .. last without one.
C23_FetchRange ==
  /\ pc[MainT] \in {"xover", "line", "pool_setup"} =>
       fetch_first = Lowest /\ fetch_last = grp.last
  /\ pc[MainT] = "create" => wq.items = Interval(Lowest, grp.last)

C23_Witness ==
  /\ pc[MainT] = "create"
  /\ opts.limit > 0 /\ opts.limit < grp.last - grp.first + 1
  /\ wq.items = Interval(grp.last - opts.limit + 1, grp.last)
  /\ Len(wq.items) >= 2

BringUpExits == {11, 12, 13, 14, 15}
\* main has the reply "count 0" to GROUP and has called db_insert_group, or
\* has ended after it.
EmptyGroup ==
  /\ grp.count = 0
  /\ \/ pc[MainT] = "check_count"
     \/ pc[MainT] = "exit" /\ exitCode \notin BringUpExits
\* No XOVER or HEAD was sent and no worker exists.
NoFetch ==
  /\ nlines = 0 /\ created = 0 /\ popLog = <<>> /\ wq.capacity = 0
  /\ \A w \in Workers : pc[w] = "idle" /\ heads[w] = 0
EmptyGroupEnds ==
  /\ grp.count = 0 => pc[MainT] \in {"connect", "group", "insert_group", "check_count", "exit"}
  /\ EmptyGroup => /\ NoFetch /\ articles = store0 /\ written = [a \in LineArts |-> 0]
                   /\ pc[MainT] = "exit" => exitCode = 0 /\ ~db.open

C25_ParseInvertsJoin ==
  Returned("parse_xover_line") => unit.ret = unit.arg

\* The header block with every folded line joined to the line it continues:
\* the continuation, less its leading whitespace, after a single space.
RECURSIVE Unfold(_, _)
Unfold(done, ls) ==
  IF ls = <<>> THEN done
  ELSE IF Head(ls)[1] = "SP" /\ done # <<>>
  THEN Unfold([done EXCEPT ![Len(done)] = @ \o <<"SP">> \o SkipSpaces(Head(ls))], Tail(ls))
  ELSE Unfold(Append(done, Head(ls)), Tail(ls))

\* C26: extract_from_headers gives for a header block with folded lines what
\* it gives for the same block unfolded: a continuation line is appended,
\* after a single space, to the value of the field it continues.
C26_FoldedLinesAppended ==
  (Returned("extract_from_headers") /\ unit.arg[1][1] # "SP") =>
    unit.ret = extract_from_headers(LinesText(Unfold(<<>>, unit.arg)))

\* C27: a run whose host name resolution failed ends with exit code 10; a
\* run that resolved the name ends with another code (11 when no candidate
\* accepted the connection).
C27_DnsFailureExit ==
  pc[MainT] = "exit" => (boot.dns = "fail" <=> exitCode = 10)

\* C28: when the creation of a table or of the unique index failed, the run
\* has ended with exit code 21 and has written no group and no article row.
C28_SchemaFailureFatal ==
  (pc[MainT] # "schema" /\ (boot.tables = "fail" \/ boot.index = "fail")) =>
    /\ pc[MainT] = "exit" /\ exitCode = 21
    /\ groups = groups0 /\ articles = store0

\* C29: once nntp_group has returned a status that is not 2xx (-1 when no
\* reply was read), main has ended with exit code 14, db_insert_group was
\* not called and table groups is as the run found it, nothing was fetched,
\* no worker was started and table articles is untouched.
C29_GroupFailureFatal ==
  (grp.rc \in GroupCodes /\ ~Is2xx(grp.rc)) =>
    /\ pc[MainT] = "exit" /\ exitCode = 14
    /\ grpWrites = 0 /\ groups = groups0
    /\ NoFetch /\ articles = store0

C29_Witness ==
  /\ pc[MainT] = "exit" /\ exitCode = 14
  /\ grp.rc = 411

\* C30: a second conn_cleanup on the same Conn makes no TLS shutdown and no
\* close of the descriptor, and leaves the Conn as the first call left it.
C30_CleanupIdempotent ==
  Returned("conn_cleanup") =>
    /\ unit.ret[2].calls = <<>>
    /\ unit.ret[2].conn = unit.ret[1].conn

\* head_worker has returned: thread_connect gave 0, or the queue was empty.
WorkerReturned == conf.role = "worker" /\ sess.step \in {"stopped", "returned"}

\* The session's TLS objects are freed and its descriptor is closed.
Destroyed ==
  /\ ~sess.ssl /\ ~sess.ctx
  /\ \E i \in DOMAIN sess.released : sess.released[i] = "close"

\* C31: once a worker whose socket was opened has returned, after a failed
\* bring-up step or after the last pop, its session has been destroyed: the
\* TLS objects are freed and the descriptor is closed.
C31_WorkerSessionDestroyed ==
  (WorkerReturned /\ sess.sock >= 0) => Destroyed

\* Every started worker has returned and the orchestrator is at exit.
RunEnded ==
  /\ pc[MainT] = "exit"
  /\ \A w \in Workers : pc[w] \in {"idle", "done"}

\* At most total numbers are popped, and for the number it holds a worker has
\* sent at most retries + 1 HEAD commands.
HeadBudget ==
  /\ Len(popLog) <= total
  /\ \A w \in Workers : heads[w] <= opts.retries + 1

\* A HEAD command is sent only by a worker for the number it has popped, and
\* a pop starts the worker's count afresh.
HeadStep ==
  \A w \in Workers :
    /\ heads'[w] > heads[w] =>
         /\ heads'[w] = heads[w] + 1
         /\ wk[w].ok = 1
         /\ \E i \in DOMAIN popLog : popLog[i] = wk[w].artnum
    /\ heads'[w] < heads[w] => (pc[w] = "pop" /\ heads'[w] = 0)

\* C32: a HEAD-mode run under a fair scheduler, in which every socket and
\* database call returns, reaches a state where every worker has returned and
\* the orchestrator is at exit; and the run sends at most range_size x
\* (retries + 1) HEAD commands: HEAD is sent only for a popped number, at
\* most retries + 1 times for each, and at most range_size numbers are popped.
C32_PoolTerminates == <>RunEnded /\ []HeadBudget /\ [][HeadStep]_vars

AuthCommands == {"AUTHINFO USER", "AUTHINFO PASS"}
HandshakeDone(e) == e = Event("TLS-connect", 1) \/ e = Event("TLS-inplace", 1)

\* C33: on a session configured for direct TLS or STARTTLS, main's or a
\* worker's, every AUTHINFO USER and AUTHINFO PASS command in the log comes
\* after a TLS handshake of that session that succeeded.
C33_NoAuthBeforeTls ==
  (conf.use_ssl \/ conf.do_starttls) =>
    \A i \in DOMAIN sess.log :
      sess.log[i].ev \in AuthCommands =>
        \E j \in 1..(i - 1) : HandshakeDone(sess.log[j])

\* A worker session upgraded by STARTTLS has sent the password.
C33_Witness ==
  /\ conf.role = "worker" /\ conf.do_starttls /\ ~conf.use_ssl /\ conf.auth
  /\ Len(sess.log) >= 5
  /\ sess.log[3] = Event("TLS-inplace", 1)
  /\ sess.log[5].ev = "AUTHINFO PASS"

\* C34: on a session with credentials, a GROUP command in the log directly
\* follows the last command of the AUTHINFO exchange, and that command was
\* answered 2xx: not left unanswered, not answered below 200 or with 3xx.
C34_GroupOnlyAfterAuth2xx ==
  conf.auth =>
    \A i \in DOMAIN sess.log :
      sess.log[i].ev = "GROUP" =>
        /\ i > 1
        /\ sess.log[i - 1].ev \in AuthCommands
        /\ Is2xx(sess.log[i - 1].code)

\* C35: with the same flags and credentials and the same answers from the
\* network and the server, once main's bring-up and thread_connect are both
\* over they have sent the same commands, received the same replies, and
\* either both selected the group or both gave up.
C35_WorkerBringUpAsMain ==
  (unit.fn = "thread_connect" /\ unit.done) =>
    /\ unit.ret.log = sess.log
    /\ (unit.ret.step = "selected") = (sess.step = "selected")

\* C36: when the transport fails before the "." terminator of the XOVER body
\* has arrived, nntp_xover returns NULL and main hands no line of that body
\* to db_insert_article.
C36_NoRowsFromCutBody ==
  Returned("nntp_xover") => (unit.ret.ret = "NULL" /\ unit.ret.lines = <<>>)

\* The whole command, CR LF included, went out on the transport.
Transmitted(s) == s.r > 0 /\ s.sent = s.buf

\* C37: a command function whose conn_sendf call did not transmit the
\* command, because the send failed or was short or because the formatted
\* command did not fit the buffer, does not go on to wait for a reply line.
C37_NoWaitForUnsentCommand ==
  (Returned("nntp_command") /\ ~Transmitted(unit.ret.send)) => ~unit.ret.waited

\* C38: in a HEAD-mode run db_insert_article is invoked at most once for any
\* article number, and only for numbers of the fetch range.
C38_HeadWritesOncePerNumber ==
  ~opts.headers_only =>
    \A a \in LineArts :
      /\ written[a] <= 1
      /\ written[a] = 1 => a \in fetch_first..fetch_last

\* A finished run under --limit 1 has handed the last article of the group,
\* and no other, to db_insert_article.
C38_Witness ==
  /\ ~opts.headers_only /\ opts.limit = 1
  /\ pc[MainT] = "exit" /\ exitCode = 0
  /\ grp.first < grp.last
  /\ written[grp.last] = 1
  /\ \A a \in LineArts : a # grp.last => written[a] = 0

\* C39: in a bulk-overview run every article number whose rows the run has
\* inserted or updated lies in the range fetch_first..fetch_last that was
\* requested with XOVER.
C39_XoverRowsInRange ==
  opts.headers_only =>
    \A a \in LineArts :
      articles[a] # store0[a] => a \in fetch_first..fetch_last

====
